---- MODULE Spec2Model ----
(***************************************************************************)
(* Model of server.js: the in-memory job store, the POST /scrape,          *)
(* GET /job/:jobId, GET /jobs and GET /health handlers, and runScraper,    *)
(* one step per await (suspension point).  The page driver (Playwright)    *)
(* is the environment: each awaited call resolves or rejects.              *)
(***************************************************************************)
EXTENDS Integers, Sequences, FiniteSets, TLC

(***************************************************************************)
(* Bounds of the model.                                                    *)
(***************************************************************************)
\* number of POST /scrape requests that start a job
MaxSubmits == 2
\* largest limit_pages a request carries
MaxLimitPages == 2
\* Date.now() ranges over 0..MaxClock
MaxClock == 1
\* Math.random() ranges over 0..MaxRandom (its digits, as an integer)
MaxRandom == 1
\* longest input of the deduplication specification
MaxLen == 4
\* most anchors on a page of the extraction specification
MaxAnchors == 3

VARIABLES
  now,        \* the wall clock read by Date.now() and new Date()
  jobs,       \* the Map `jobs`: job id -> job record
  run,        \* the calls of runScraper, in the order they were started
  writer,     \* history: for each job id, the call of runScraper that wrote it last
  resp,       \* the response sent by the request served in this step
  serverUp,   \* FALSE once an unhandled rejection has ended the process
  dIn, dOut   \* the specifications of the pure functions: input and successive outputs

vars == <<now, jobs, run, writer, resp, serverUp, dIn, dOut>>

(***************************************************************************)
(* JavaScript values.                                                      *)
(***************************************************************************)
Null == "null"
NoResp == [code |-> 0]

\* error.message of the errors the page driver throws
Msgs == {"timeout", "target closed"}

(***************************************************************************)
(* Extractor: the function passed to page.evaluate.  An anchor is its      *)
(* innerText (a sequence of lines), the innerText of its h3/h4 (or ""),    *)
(* and its href.  A line is one of the strings below, matched character   *)
(* by character; the module is ASCII, so Marker stands for the Arabic      *)
(* phrase of line 69 and "m2" for the unit of line 75.                     *)
(***************************************************************************)
Marker == "category-marker"

\* a first line of 104 characters, and its first 100
LongLine == "Flat xxxxxxxxxxxxxxxxxxxxxxxxxxxxxxxxxxxxxxxxxxxxxxxxxxxxxxxxxxxxxxxxxxxxxxxxxxxxxxxxxxxxxxxxxxxxxxxxxxx"

\* line.substring(0, 100)
substring100(line) ==
  IF line = LongLine
  THEN "Flat xxxxxxxxxxxxxxxxxxxxxxxxxxxxxxxxxxxxxxxxxxxxxxxxxxxxxxxxxxxxxxxxxxxxxxxxxxxxxxxxxxxxxxxxxxxxxxx"
  ELSE line

\* the characters of a line; Marker and the unit "m2" count as one each
Chars(line) ==
  CASE line = "300,000" -> <<"3", "0", "0", ",", "0", "0", "0">>
    [] line = "450,000" -> <<"4", "5", "0", ",", "0", "0", "0">>
    [] line = "1,250,000.5" -> <<"1", ",", "2", "5", "0", ",", "0", "0", "0", ".", "5">>
    [] line = "1234,567" -> <<"1", "2", "3", "4", ",", "5", "6", "7">>
    [] line = "150 m2" -> <<"1", "5", "0", " ", "m2">>
    [] line = "90m2" -> <<"9", "0", "m2">>
    [] line = "Apartment 5000" -> <<"A", " ", "5", "0", "0", "0">>
    [] line = Marker -> <<Marker>>
    [] OTHER -> <<"A">>

\* link.innerText as characters: the lines joined by newlines
RECURSIVE TextChars(_)
TextChars(text) ==
  IF text = <<>> THEN <<>>
  ELSE IF Len(text) = 1 THEN Chars(text[1])
  ELSE Chars(text[1]) \o <<"\n">> \o TextChars(Tail(text))

IsDigit(c) == c \in {"0", "1", "2", "3", "4", "5", "6", "7", "8", "9"}

IsSpace(c) == c \in {" ", "\n"}

\* the length of the run of digits (of white space) of cs that starts at p
RECURSIVE DigitsAt(_, _)
DigitsAt(cs, p) ==
  IF p <= Len(cs) /\ IsDigit(cs[p]) THEN 1 + DigitsAt(cs, p + 1) ELSE 0

RECURSIVE SpacesAt(_, _)
SpacesAt(cs, p) ==
  IF p <= Len(cs) /\ IsSpace(cs[p]) THEN 1 + SpacesAt(cs, p + 1) ELSE 0

\* (?:,[0-9]{3})+ at p, greedy: the number of groups matched
RECURSIVE GroupsAt(_, _)
GroupsAt(cs, p) ==
  IF p + 3 <= Len(cs) /\ cs[p] = "," /\ DigitsAt(cs, p + 1) >= 3
  THEN 1 + GroupsAt(cs, p + 4)
  ELSE 0

\* (?:\.[0-9]+)? at p, greedy: the length matched
DecimalAt(cs, p) ==
  IF p < Len(cs) /\ cs[p] = "." /\ DigitsAt(cs, p + 1) >= 1
  THEN 1 + DigitsAt(cs, p + 1)
  ELSE 0

\* the leading digits [0-9]{1,3} a match at s takes (greedy, backtracking),
\* or 0 when the pattern does not match at s
LeadAt(cs, s) ==
  LET ok == { n \in 1..3 : n <= DigitsAt(cs, s) /\ GroupsAt(cs, s + n) >= 1 }
  IN IF ok = {} THEN 0 ELSE CHOOSE n \in ok : \A k \in ok : k <= n

\* text.match(/[0-9]{1,3}(?:,[0-9]{3})+(?:\.[0-9]+)?/): the leftmost match
\* (priceMatch[0]), or Null
LinePrice(cs) ==
  LET starts == { s \in 1..Len(cs) : LeadAt(cs, s) > 0 }
  IN IF starts = {} THEN Null
     ELSE LET s == CHOOSE x \in starts : \A y \in starts : x <= y
              q == s + LeadAt(cs, s) + 4 * GroupsAt(cs, s + LeadAt(cs, s))
          IN SubSeq(cs, s, q + DecimalAt(cs, q) - 1)

\* text.match(/([0-9]+)\s*m2/)?.[1]: group 1 of the leftmost match, or Null
LineArea(cs) ==
  LET unitAfter(s) == LET q == s + DigitsAt(cs, s) + SpacesAt(cs, s + DigitsAt(cs, s))
                      IN DigitsAt(cs, s) >= 1 /\ q <= Len(cs) /\ cs[q] = "m2"
      starts == { s \in 1..Len(cs) : unitAfter(s) }
  IN IF starts = {} THEN Null
     ELSE LET s == CHOOSE x \in starts : \A y \in starts : x <= y
          IN SubSeq(cs, s, s + DigitsAt(cs, s) - 1)

\* the string that the matched characters spell
Join(cs) ==
  CASE cs = <<"3", "0", "0", ",", "0", "0", "0">> -> "300,000"
    [] cs = <<"4", "5", "0", ",", "0", "0", "0">> -> "450,000"
    [] cs = <<"1", ",", "2", "5", "0", ",", "0", "0", "0", ".", "5">> -> "1,250,000.5"
    [] cs = <<"2", "3", "4", ",", "5", "6", "7">> -> "234,567"
    [] cs = <<"1", "5", "0">> -> "150"
    [] cs = <<"9", "0">> -> "90"
    [] OTHER -> cs

priceMatch(text) ==
  LET m == LinePrice(TextChars(text)) IN IF m = Null THEN Null ELSE Join(m)

\* faulty variant of includesMarker: the phrase is never found
includesMarkerNever(text) == FALSE

\* text.includes(Marker)
includesMarker(text) ==
  LET cs == TextChars(text) IN \E k \in 1..Len(cs) : cs[k] = Marker

ListingOf(a) ==
  [title |-> IF a.heading # "" THEN a.heading
             ELSE IF Len(a.text) > 0 THEN substring100(a.text[1]) ELSE "",
   price |-> priceMatch(a.text),
   area  |-> LET m == LineArea(TextChars(a.text)) IN IF m = Null THEN "N/A" ELSE Join(m),
   link  |-> a.href]

RECURSIVE Extract(_)
Extract(anchors) ==
  IF anchors = <<>> THEN <<>>
  ELSE LET a == Head(anchors)
           rest == Extract(Tail(anchors))
       IN IF includesMarker(a.text) \/ priceMatch(a.text) = Null
          THEN rest
          ELSE <<ListingOf(a)>> \o rest

\* the anchors of the pages the driver may show
AnchorVilla == [text |-> <<"Villa", "300,000", "150 m2">>, heading |-> "Villa A", href |-> "L1"]
AnchorVilla2 == [text |-> <<"Villa", "450,000">>, heading |-> "", href |-> "L1"]
AnchorFlat == [text |-> <<LongLine, "1,250,000.5", "90m2">>, heading |-> "", href |-> "L2"]
AnchorPlain == [text |-> <<"Apartment 5000">>, heading |-> "", href |-> "L3"]
AnchorCat == [text |-> <<Marker, "300,000">>, heading |-> "", href |-> "L4"]

Pages ==
  { <<AnchorVilla, AnchorPlain, AnchorFlat>>,
    <<AnchorCat, AnchorFlat, AnchorVilla2>> }

\* page.evaluate(...) on each page the driver may show, computed once
evaluate == [anchors \in Pages |-> Extract(anchors)]

(***************************************************************************)
(* Deduplicator: [...new Map(allListings.map(item => [item.link, item]))   *)
(* .values()].  A Map keeps its keys in insertion order; setting a key     *)
(* that is present replaces the value and keeps the position.              *)
(***************************************************************************)
MapIndex(m, key) ==
  IF \E k \in 1..Len(m) : m[k].link = key
  THEN CHOOSE k \in 1..Len(m) : m[k].link = key
  ELSE 0

\* faulty variant of MapSet: a key that is present keeps its first value
MapSetKeepFirst(m, item) ==
  LET k == MapIndex(m, item.link)
  IN IF k = 0 THEN Append(m, item) ELSE m

\* faulty variant of MapSet: a new key is put in front instead of at the end
MapSetUnshift(m, item) ==
  LET k == MapIndex(m, item.link)
  IN IF k = 0 THEN <<item>> \o m ELSE [m EXCEPT ![k] = item]

MapSet(m, item) ==
  LET k == MapIndex(m, item.link)
  IN IF k = 0 THEN Append(m, item) ELSE [m EXCEPT ![k] = item]

RECURSIVE MapFrom(_, _)
MapFrom(m, items) ==
  IF items = <<>> THEN m ELSE MapFrom(MapSet(m, Head(items)), Tail(items))

dedupe(allListings) == MapFrom(<<>>, allListings)

(***************************************************************************)
(* Job records, as the calls of jobs.set write them: each call replaces    *)
(* the whole object, so a record has exactly the keys of its literal.      *)
(***************************************************************************)
Has(obj, key) == key \in DOMAIN obj

QueuedRecord == [status |-> "queued", progress |-> 0, data |-> <<>>, error |-> Null]

RunningRecord == [status |-> "running", progress |-> 0, data |-> <<>>, error |-> Null]

(***************************************************************************)
(* Math.round((i / maxPages) * 100) for 1 <= i <= maxPages, in IEEE 754    *)
(* double arithmetic.  The quotient and the product are each rounded to    *)
(* 53 significant bits (nearest, ties to even); Math.round rounds halves   *)
(* up.  The two roundings move the value by far less than 1/(2 maxPages),  *)
(* so they matter only when 100 i / maxPages is exactly k + 1/2: then the  *)
(* product is k + 1/2 or the double just below it, and Math.round gives    *)
(* k + 1 or k.                                                             *)
(***************************************************************************)
RECURSIVE Pow2(_)
Pow2(n) == IF n <= 0 THEN 1 ELSE 2 * Pow2(n - 1)

\* the least n with i * 2^n >= m: i / m lies in [2^-n, 2^(1-n))
RECURSIVE BinadeOf(_, _, _)
BinadeOf(i, m, n) == IF i * Pow2(n) >= m THEN n ELSE BinadeOf(i, m, n + 1)

\* x * 2^steps modulo m
RECURSIVE ShiftMod(_, _, _)
ShiftMod(x, m, steps) == IF steps = 0 THEN x % m ELSE ShiftMod((2 * x) % m, m, steps - 1)

\* the greatest t with 2^t <= k, for k >= 1
RECURSIVE Log2Floor(_)
Log2Floor(k) == IF k < 2 THEN 0 ELSE 1 + Log2Floor(k \div 2)

\* 100 i / m is k + 1/2 exactly: the double (i / m) * 100 is less than k + 1/2
ProductBelowHalf(i, m, k) ==
  LET n == BinadeOf(i, m, 0)
      \* i / m = (M + r / m) / 2^(52 + n) with M the 53-bit quotient
      r == ShiftMod(i, m, 52 + n)
      \* half the spacing of the doubles just below k + 1/2, in units of
      \* 2^-(52 + n), is 2^gap
      gap == IF k = 0 THEN n - 3 ELSE Log2Floor(k) + n - 1
  IN /\ r # 0
     /\ 2 * r < m
     /\ 100 * r > m * Pow2(gap)

Round100(i, maxPages) ==
  LET up == (200 * i + maxPages) \div (2 * maxPages)
  IN IF (200 * i) % (2 * maxPages) = maxPages /\ ProductBelowHalf(i, maxPages, up - 1)
     THEN up - 1
     ELSE up

\* faulty variant of ProgressRecord: progress from the pages that remain
ProgressRecordRemaining(i, maxPages) ==
  [status |-> "running", progress |-> Round100(maxPages - i, maxPages),
   currentPage |-> i, totalPages |-> maxPages, data |-> <<>>, error |-> Null]

ProgressRecord(i, maxPages) ==
  [status |-> "running", progress |-> Round100(i, maxPages), currentPage |-> i,
   totalPages |-> maxPages, data |-> <<>>, error |-> Null]

\* new Date().toISOString()
toISOString(t) == <<"iso", t>>

\* faulty variant of CompletedRecord: data: [] as in the other literals
CompletedRecordNoData(uniqueListings, t) ==
  [status |-> "completed", progress |-> 100, count |-> Len(uniqueListings),
   data |-> <<>>, error |-> Null, completedAt |-> toISOString(t)]

CompletedRecord(uniqueListings, t) ==
  [status |-> "completed", progress |-> 100, count |-> Len(uniqueListings),
   data |-> uniqueListings, error |-> Null, completedAt |-> toISOString(t)]

\* faulty variant of FailedRecord: it keeps what was accumulated
FailedRecordKeepsPartial(message, allListings) ==
  [status |-> "failed", progress |-> 0, data |-> allListings, error |-> message]

\* faulty variant of FailedRecord: the message is lost (error: null)
FailedRecordNoMessage(message, allListings) ==
  [status |-> "failed", progress |-> 0, data |-> <<>>, error |-> Null]

FailedRecord(message, allListings) ==
  [status |-> "failed", progress |-> 0, data |-> <<>>, error |-> message]

(***************************************************************************)
(* Job ids: `job_${Date.now()}_${Math.random().toString(36).substr(2,9)}`. *)
(* substr keeps the leading digits of the random number and drops the      *)
(* rest: here the last binary digit is the part dropped.                   *)
(***************************************************************************)
substr(rnd) == rnd \div 2

generateJobId(t, rnd) == <<"job", t, substr(rnd)>>

JobIds == { generateJobId(t, rnd) : t \in 0..MaxClock, rnd \in 0..MaxRandom }

\* limit_pages of a request body: 0 stands for a missing (or falsy) value
LimitInputs == (-1)..MaxLimitPages

\* limit_pages || 1
maxPagesOf(limit_pages) == IF limit_pages = 0 THEN 1 ELSE limit_pages

\* jobs.set(id, rec) on the store `store`
StoreSet(store, id, rec) ==
  [k \in DOMAIN store \cup {id} |-> IF k = id THEN rec ELSE store[k]]

\* the local state of a call runScraper(jobId, originUrl, maxPages) suspended
\* at the await `pc`; extracted counts the pages page.evaluate has returned,
\* clicks the calls of nextBtn.click()
NewRun(jobId, maxPages) ==
  [jobId |-> jobId, maxPages |-> maxPages, pc |-> "launch", i |-> 0,
   allListings |-> <<>>, uniqueListings |-> <<>>, error |-> Null,
   browser |-> "none", extracted |-> 0, clicks |-> 0, at |-> "",
   rejection |-> Null]

Runs == 1..Len(run)

(***************************************************************************)
(* The initial state: an empty store, no call of runScraper.               *)
(***************************************************************************)
Init ==
  /\ now = 0
  /\ jobs = <<>>
  /\ run = <<>>
  /\ writer = <<>>
  /\ resp = NoResp
  /\ serverUp = TRUE
  /\ dIn = <<>>
  /\ dOut = <<>>

Idle == dIn' = dIn /\ dOut' = dOut

(***************************************************************************)
(* The clock advances.                                                     *)
(***************************************************************************)
Tick ==
  /\ serverUp
  /\ now < MaxClock
  /\ now' = now + 1
  /\ resp' = NoResp
  /\ UNCHANGED <<jobs, run, writer, serverUp>>
  /\ Idle

(***************************************************************************)
(* POST /scrape.  runScraper runs inside the handler up to its first       *)
(* await (chromium.launch), so the handler writes the queued record and    *)
(* then the running record before it answers.                              *)
(***************************************************************************)
\* faulty variant of ScrapeMissing: the record is stored before the body is
\* validated
ScrapeMissingStoresJob ==
  /\ serverUp
  /\ jobs' = StoreSet(jobs, generateJobId(now, 0), QueuedRecord)
  /\ resp' = [code |-> 400, error |-> "Missing originUrl"]
  /\ UNCHANGED <<now, run, writer, serverUp>>
  /\ Idle

ScrapeMissing ==
  /\ serverUp
  /\ resp' = [code |-> 400, error |-> "Missing originUrl"]
  /\ UNCHANGED <<now, jobs, run, writer, serverUp>>
  /\ Idle

\* faulty variant of ScrapeStart: runScraper starts after the handler has
\* answered
ScrapeStartDeferred(limit_pages, rnd) ==
  /\ serverUp
  /\ Len(run) < MaxSubmits
  /\ LET jobId == generateJobId(now, rnd)
         maxPages == maxPagesOf(limit_pages)
     IN /\ jobs' = StoreSet(jobs, jobId, QueuedRecord)
        /\ run' = Append(run, NewRun(jobId, maxPages))
        /\ writer' = StoreSet(writer, jobId, Len(run) + 1)
        /\ resp' = [code |-> 200, success |-> TRUE, jobId |-> jobId,
                    checkStatusUrl |-> <<"/job/", jobId>>]
  /\ UNCHANGED <<now, serverUp>>
  /\ Idle

ScrapeStart(limit_pages, rnd) ==
  /\ serverUp
  /\ Len(run) < MaxSubmits
  /\ LET jobId == generateJobId(now, rnd)
         maxPages == maxPagesOf(limit_pages)
         queued == StoreSet(jobs, jobId, QueuedRecord)
     IN /\ jobs' = StoreSet(queued, jobId, RunningRecord)
        /\ run' = Append(run, NewRun(jobId, maxPages))
        /\ writer' = StoreSet(writer, jobId, Len(run) + 1)
        /\ resp' = [code |-> 200, success |-> TRUE, jobId |-> jobId,
                    checkStatusUrl |-> <<"/job/", jobId>>]
  /\ UNCHANGED <<now, serverUp>>
  /\ Idle

(***************************************************************************)
(* GET /job/:jobId, GET /jobs, GET /health.                                *)
(***************************************************************************)
\* res.json(obj): a key whose value is undefined is left out
Pick(obj, keys) == [k \in keys \cap DOMAIN obj |-> obj[k]]

\* faulty variant of JobResponse: the full record whatever the status
JobResponseFull(jobId, job) ==
  [code |-> 200, jobId |-> jobId,
   count |-> IF Has(job, "count") THEN job.count ELSE 0]
  @@ Pick(job, {"status", "progress", "currentPage", "totalPages",
                "data", "error", "completedAt"})

JobResponse(jobId, job) ==
  IF job.status = "running" \/ job.status = "queued"
  THEN [code |-> 200, jobId |-> jobId]
       @@ Pick(job, {"status", "progress", "currentPage", "totalPages"})
  ELSE [code |-> 200, jobId |-> jobId,
        \* job.count || 0
        count |-> IF Has(job, "count") THEN job.count ELSE 0]
       @@ Pick(job, {"status", "progress", "data", "error", "completedAt"})

GetJob(jobId) ==
  /\ serverUp
  /\ resp' = IF jobId \in DOMAIN jobs
             THEN JobResponse(jobId, jobs[jobId])
             ELSE [code |-> 404, error |-> "Job not found"]
  /\ UNCHANGED <<now, jobs, run, writer, serverUp>>
  /\ Idle

\* faulty variant of GetJobs: the jobs that have ended are left out
GetJobsInFlight ==
  /\ serverUp
  /\ resp' = [code |-> 200,
              jobs |-> { [jobId |-> id, status |-> jobs[id].status,
                          progress |-> jobs[id].progress] :
                         id \in { k \in DOMAIN jobs : jobs[k].status \in {"queued", "running"} } }]
  /\ UNCHANGED <<now, jobs, run, writer, serverUp>>
  /\ Idle

GetJobs ==
  /\ serverUp
  /\ resp' = [code |-> 200,
              jobs |-> { [jobId |-> id, status |-> jobs[id].status,
                          progress |-> jobs[id].progress] : id \in DOMAIN jobs }]
  /\ UNCHANGED <<now, jobs, run, writer, serverUp>>
  /\ Idle

Health ==
  /\ serverUp
  /\ resp' = [code |-> 200, status |-> "ok", timestamp |-> toISOString(now)]
  /\ UNCHANGED <<now, jobs, run, writer, serverUp>>
  /\ Idle

(***************************************************************************)
(* runScraper.  Each action below is the code from one await to the next.  *)
(***************************************************************************)
TryPcs == {"goto", "settle", "evaluate", "isVisible", "click", "clickSettle"}

RunnerStep(r, pc) ==
  /\ serverUp
  /\ r \in Runs
  /\ run[r].pc = pc
  /\ resp' = NoResp
  /\ now' = now
  /\ Idle

\* the runner's jobs.set(jobId, rec), after which it is suspended as `st`
Write(r, st, rec) ==
  /\ jobs' = StoreSet(jobs, st.jobId, rec)
  /\ writer' = StoreSet(writer, st.jobId, r)
  /\ run' = [run EXCEPT ![r] = st]

\* a step that writes no record
Local(r, st) ==
  /\ run' = [run EXCEPT ![r] = st]
  /\ UNCHANGED <<jobs, writer>>

\* lines 98-109 and the finally block: deduplicate, mark completed, call close
Finish(r, st) ==
  LET uniqueListings == dedupe(st.allListings)
  IN Write(r, [st EXCEPT !.uniqueListings = uniqueListings, !.pc = "close"],
           CompletedRecord(uniqueListings, now))

\* the head of the for loop with the counter at i
Enter(r, st, i) ==
  IF i <= st.maxPages
  THEN Write(r, [st EXCEPT !.i = i, !.pc = "waitForSelector"],
             ProgressRecord(i, st.maxPages))
  ELSE Finish(r, [st EXCEPT !.i = i])

\* the promise of runScraper rejects and nothing handles it (line 146 drops
\* the promise): Node raises the rejection as an uncaught exception and the
\* process ends, leaving the session as it is
Unhandled(r, message) ==
  /\ Local(r, [run[r] EXCEPT !.at = run[r].pc, !.pc = "rejected",
                             !.rejection = message])
  /\ serverUp' = FALSE

LaunchResolves(r) ==
  /\ RunnerStep(r, "launch")
  /\ Local(r, [run[r] EXCEPT !.browser = "open", !.pc = "newPage"])
  /\ UNCHANGED serverUp

LaunchRejects(r, message) ==
  /\ RunnerStep(r, "launch")
  /\ Unhandled(r, message)

NewPageResolves(r) ==
  /\ RunnerStep(r, "newPage")
  /\ Local(r, [run[r] EXCEPT !.allListings = <<>>, !.pc = "goto"])
  /\ UNCHANGED serverUp

NewPageRejects(r, message) ==
  /\ RunnerStep(r, "newPage")
  /\ Unhandled(r, message)

GotoResolves(r) ==
  /\ RunnerStep(r, "goto")
  /\ Enter(r, run[r], 1)
  /\ UNCHANGED serverUp

\* an await inside the try block rejects: the catch block, then finally
Throws(r, message) ==
  /\ \E pc \in TryPcs : RunnerStep(r, pc)
  /\ Write(r, [run[r] EXCEPT !.error = message, !.pc = "close"],
           FailedRecord(message, run[r].allListings))
  /\ UNCHANGED serverUp

WaitForSelectorResolves(r) ==
  /\ RunnerStep(r, "waitForSelector")
  /\ Local(r, [run[r] EXCEPT !.pc = "settle"])
  /\ UNCHANGED serverUp

\* the inner try/catch swallows the timeout
WaitForSelectorTimesOut(r) ==
  /\ RunnerStep(r, "waitForSelector")
  /\ Local(r, [run[r] EXCEPT !.pc = "settle"])
  /\ UNCHANGED serverUp

SettleResolves(r) ==
  /\ RunnerStep(r, "settle")
  /\ Local(r, [run[r] EXCEPT !.pc = "evaluate"])
  /\ UNCHANGED serverUp

\* faulty variant of EvaluateResolves: the next button is looked up on the
\* last page too
EvaluateResolvesLooksUpLast(r, anchors) ==
  /\ RunnerStep(r, "evaluate")
  /\ LET pageListings == evaluate[anchors]
         st == [run[r] EXCEPT !.allListings = @ \o pageListings,
                              !.extracted = @ + 1]
     IN IF st.i <= st.maxPages
        THEN Local(r, [st EXCEPT !.pc = "isVisible"])
        ELSE Enter(r, st, st.i + 1)
  /\ UNCHANGED serverUp

EvaluateResolves(r, anchors) ==
  /\ RunnerStep(r, "evaluate")
  /\ LET pageListings == evaluate[anchors]
         st == [run[r] EXCEPT !.allListings = @ \o pageListings,
                              !.extracted = @ + 1]
     IN IF st.i < st.maxPages
        THEN Local(r, [st EXCEPT !.pc = "isVisible"])
        ELSE Enter(r, st, st.i + 1)
  /\ UNCHANGED serverUp

IsVisibleTrue(r) ==
  /\ RunnerStep(r, "isVisible")
  /\ Local(r, [run[r] EXCEPT !.pc = "click", !.clicks = @ + 1])
  /\ UNCHANGED serverUp

\* break
IsVisibleFalse(r) ==
  /\ RunnerStep(r, "isVisible")
  /\ Finish(r, run[r])
  /\ UNCHANGED serverUp

ClickResolves(r) ==
  /\ RunnerStep(r, "click")
  /\ Local(r, [run[r] EXCEPT !.pc = "clickSettle"])
  /\ UNCHANGED serverUp

ClickSettleResolves(r) ==
  /\ RunnerStep(r, "clickSettle")
  /\ Enter(r, run[r], run[r].i + 1)
  /\ UNCHANGED serverUp

CloseResolves(r) ==
  /\ RunnerStep(r, "close")
  /\ Local(r, [run[r] EXCEPT !.browser = "closed", !.pc = "done"])
  /\ UNCHANGED serverUp

CloseRejects(r, message) ==
  /\ RunnerStep(r, "close")
  /\ Unhandled(r, message)

Next ==
  \/ Tick
  \/ ScrapeMissing
  \/ \E limit_pages \in LimitInputs, rnd \in 0..MaxRandom : ScrapeStart(limit_pages, rnd)
  \/ \E jobId \in JobIds : GetJob(jobId)
  \/ GetJobs
  \/ Health
  \/ \E r \in Runs : LaunchResolves(r)
  \/ \E r \in Runs, m \in Msgs : LaunchRejects(r, m)
  \/ \E r \in Runs : NewPageResolves(r)
  \/ \E r \in Runs, m \in Msgs : NewPageRejects(r, m)
  \/ \E r \in Runs : GotoResolves(r)
  \/ \E r \in Runs, m \in Msgs : Throws(r, m)
  \/ \E r \in Runs : WaitForSelectorResolves(r)
  \/ \E r \in Runs : WaitForSelectorTimesOut(r)
  \/ \E r \in Runs : SettleResolves(r)
  \/ \E r \in Runs, anchors \in Pages : EvaluateResolves(r, anchors)
  \/ \E r \in Runs : IsVisibleTrue(r)
  \/ \E r \in Runs : IsVisibleFalse(r)
  \/ \E r \in Runs : ClickResolves(r)
  \/ \E r \in Runs : ClickSettleResolves(r)
  \/ \E r \in Runs : CloseResolves(r)
  \/ \E r \in Runs, m \in Msgs : CloseRejects(r, m)

Spec == Init /\ [][Next]_vars

(***************************************************************************)
(* The deduplication specification: dedupe applied to every sequence of    *)
(* at most MaxLen listings, and applied again to its own output.           *)
(***************************************************************************)
AnchorFlat2 == [text |-> <<"Flat", "1234,567">>, heading |-> "Flat B", href |-> "L2"]

DedupeItems == { ListingOf(a) : a \in {AnchorVilla, AnchorVilla2, AnchorFlat, AnchorFlat2} }

SeqsUpTo(S, n) == UNION { [1..k -> S] : k \in 0..n }

InitDedupe ==
  /\ now = 0
  /\ jobs = <<>>
  /\ run = <<>>
  /\ writer = <<>>
  /\ resp = NoResp
  /\ serverUp = TRUE
  /\ dIn \in SeqsUpTo(DedupeItems, MaxLen)
  /\ dOut = <<>>

DedupeApply ==
  /\ Len(dOut) = 0
  /\ dOut' = <<dedupe(dIn)>>
  /\ UNCHANGED <<now, jobs, run, writer, resp, serverUp, dIn>>

DedupeAgain ==
  /\ Len(dOut) = 1
  /\ dOut' = Append(dOut, dedupe(dOut[1]))
  /\ UNCHANGED <<now, jobs, run, writer, resp, serverUp, dIn>>

NextDedupe == DedupeApply \/ DedupeAgain

SpecDedupe == InitDedupe /\ [][NextDedupe]_vars

(***************************************************************************)
(* The extractor on its own: the callback of page.evaluate applied to the  *)
(* anchors of one page.                                                    *)
(***************************************************************************)
AnchorVillaCopy == [text |-> <<"Villa", "300,000", "150 m2">>, heading |-> "Villa A", href |-> "L5"]
AnchorCatPlain == [text |-> <<"Villa", Marker>>, heading |-> "", href |-> "L6"]
AnchorEmpty == [text |-> <<>>, heading |-> "", href |-> "L7"]

ExtractAnchors ==
  {AnchorVilla, AnchorVillaCopy, AnchorVilla2, AnchorFlat, AnchorFlat2,
   AnchorPlain, AnchorCat, AnchorCatPlain, AnchorEmpty}

InitExtract ==
  /\ now = 0
  /\ jobs = <<>>
  /\ run = <<>>
  /\ writer = <<>>
  /\ resp = NoResp
  /\ serverUp = TRUE
  /\ dIn \in SeqsUpTo(ExtractAnchors, MaxAnchors)
  /\ dOut = <<>>

ExtractApply ==
  /\ Len(dOut) = 0
  /\ dOut' = <<Extract(dIn)>>
  /\ UNCHANGED <<now, jobs, run, writer, resp, serverUp, dIn>>

NextExtract == ExtractApply

SpecExtract == InitExtract /\ [][NextExtract]_vars

(***************************************************************************)
(* Properties.                                                             *)
(***************************************************************************)
Terminal == {"completed", "failed"}

\* the step starts a job: POST /scrape with an originUrl
Submitted == Len(run') = Len(run) + 1

\* C1: every POST /scrape with an originUrl returns a jobId that was not a
\* key of the job store before the request, and when the response is
\* produced the store holds that jobId as queued or running.
C1_FreshJobId ==
  [][Submitted =>
       /\ resp'.jobId \notin DOMAIN jobs
       /\ resp'.jobId \in DOMAIN jobs'
       /\ jobs'[resp'.jobId].status \in {"queued", "running"}]_vars

\* C2 as stated: between any two successive observations of a job's record,
\* also after the job failed, progress does not decrease, and it lies in
\* 0..100.  (Stated for the steps in which the record stays with the run
\* that wrote it last.)
C2_ProgressNeverDecreases ==
  [][\A id \in DOMAIN jobs :
       writer'[id] = writer[id] =>
         /\ jobs'[id].progress \in 0..100
         /\ jobs'[id].progress >= jobs[id].progress]_vars

\* C2 amended: every progress value lies in 0..100, and the progress of a
\* job's record decreases in two cases only: the record becomes failed, and
\* then it is 0, or another run started under the same id takes the record
\* over.
C2_ProgressDecreasesOnlyOnFailure ==
  [][\A id \in DOMAIN jobs :
       /\ jobs'[id].progress \in 0..100
       /\ jobs'[id].status = "failed" => jobs'[id].progress = 0
       /\ jobs'[id].progress < jobs[id].progress =>
            \/ jobs'[id].status = "failed"
            \/ writer'[id] # writer[id]]_vars

\* a job that went through progress 50 and 100 on its two pages and then
\* failed, back at progress 0
C2_Witness ==
  \E r \in Runs :
    /\ writer[run[r].jobId] = r
    /\ run[r].i = 2 /\ run[r].maxPages = 2
    /\ run[r].error # Null
    /\ jobs[run[r].jobId].status = "failed"
    /\ jobs[run[r].jobId].progress = 0

\* C3: once a job's status is completed or failed no step changes it, and
\* no job moves from running back to queued.
C3_TerminalSticky ==
  [][\A id \in DOMAIN jobs :
       /\ jobs[id].status \in Terminal => jobs'[id].status = jobs[id].status
       /\ ~(jobs[id].status = "running" /\ jobs'[id].status = "queued")]_vars

\* C4: when chromium.launch or browser.newPage throws, the job's record is
\* failed, with the error's message and progress 0.
C4_AcquisitionFailureFailsJob ==
  \A r \in Runs :
    (run[r].pc = "rejected" /\ run[r].at \in {"launch", "newPage"}) =>
      /\ jobs[run[r].jobId].status = "failed"
      /\ jobs[run[r].jobId].error = run[r].rejection
      /\ jobs[run[r].jobId].progress = 0

\* C5: no call of runScraper that obtained a browser ends with the browser
\* left open.
C5_SessionClosedOnEveryExit ==
  \A r \in Runs :
    (run[r].pc \in {"done", "rejected"} /\ run[r].browser # "none") =>
      run[r].browser = "closed"

\* the step in which an await of run r inside the try block rejects
Caught(r) ==
  /\ run[r].pc \in TryPcs
  /\ run'[r].pc = "close"
  /\ run'[r].error # Null

\* C6: when navigation, extraction or pagination throws, the job's record
\* becomes failed with the caught message, progress 0 and no results, a
\* poll of it returns no record, and the failed run never writes the record
\* again: what it had accumulated is never stored.
C6_FailureDiscardsPartialResults ==
  [][\A r \in Runs :
       LET id == run[r].jobId
       IN /\ Caught(r) =>
               /\ jobs'[id] = [status |-> "failed", progress |-> 0, data |-> <<>>,
                               error |-> run'[r].error]
               /\ JobResponse(id, jobs'[id]).data = <<>>
               /\ JobResponse(id, jobs'[id]).error = run'[r].error
          /\ (run[r].error # Null /\ writer'[id] = r) =>
               (writer[id] = r /\ jobs'[id] = jobs[id])]_vars

\* a run that failed after it had extracted listings, its record failed and
\* empty
C6_Witness ==
  \E r \in Runs :
    /\ writer[run[r].jobId] = r
    /\ run[r].error # Null
    /\ run[r].extracted >= 1
    /\ run[r].allListings # <<>>
    /\ jobs[run[r].jobId].status = "failed"
    /\ jobs[run[r].jobId].data = <<>>

\* C7: a job that is neither queued nor running is either completed, with
\* results, a null error and completedAt, or failed, with an error, and
\* never both; only a completed job has results and only a failed job an
\* error.
C7_ExactlyOneOutcome ==
  \A id \in DOMAIN jobs :
    LET job == jobs[id]
        completed == /\ job.status = "completed"
                     /\ Has(job, "data")
                     /\ job.error = Null
                     /\ Has(job, "completedAt")
        failed == job.status = "failed" /\ job.error # Null
    IN /\ job.status \notin {"queued", "running"} => (completed # failed)
       /\ job.data # <<>> => job.status = "completed"
       /\ job.error # Null => job.status = "failed"

\* the store holds a completed job with listings and a failed job
C7_Witness ==
  /\ \E id \in DOMAIN jobs : jobs[id].status = "completed" /\ jobs[id].data # <<>>
  /\ \E id \in DOMAIN jobs : jobs[id].status = "failed"

\* the first and the last index of a link in a sequence of listings
FirstIndex(items, link) ==
  CHOOSE k \in 1..Len(items) :
    items[k].link = link /\ \A j \in 1..(k - 1) : items[j].link # link

LastIndex(items, link) ==
  CHOOSE k \in 1..Len(items) :
    items[k].link = link /\ \A j \in (k + 1)..Len(items) : items[j].link # link

LinksOf(items) == { items[k].link : k \in 1..Len(items) }

\* C8: the deduplicated result has exactly one record per distinct link of
\* the input; the record of a link is the last occurrence of that link in
\* the input; the records are in the order of the first occurrences of
\* their links.
C8_DedupeLastValueFirstPosition ==
  Len(dOut) >= 1 =>
    LET out == dOut[1]
    IN /\ \A a, b \in 1..Len(out) : a # b => out[a].link # out[b].link
       /\ LinksOf(out) = LinksOf(dIn)
       /\ \A k \in 1..Len(out) : out[k] = dIn[LastIndex(dIn, out[k].link)]
       /\ \A a, b \in 1..Len(out) :
            a < b => FirstIndex(dIn, out[a].link) < FirstIndex(dIn, out[b].link)

\* an input where a link occurs twice with different fields and another
\* link lies between the two occurrences, deduplicated
C8_Witness ==
  /\ Len(dOut) >= 1
  /\ \E a, b, c \in 1..Len(dIn) :
       /\ a < b /\ b < c
       /\ dIn[a].link = dIn[c].link
       /\ dIn[a] # dIn[c]
       /\ dIn[b].link # dIn[a].link
  /\ Len(dOut[1]) = 2

\* C9: deduplicating a deduplicated sequence gives the same sequence.
C9_DedupeIdempotent ==
  Len(dOut) = 2 => dOut[2] = dOut[1]

\* dedupe applied twice to an input with a repeated link and two links
C9_Witness ==
  /\ Len(dOut) = 2
  /\ dOut[1] # dIn
  /\ Len(dOut[1]) = 2

\* the step in which run r finds no next-page control on page i < maxPages
StopsEarly(r) ==
  /\ run[r].pc = "isVisible"
  /\ run'[r].pc = "close"
  /\ run'[r].error = Null

\* C10 as stated: when no next-page control is visible on a page
\* p < maxPages the job becomes completed with the deduplicated records of
\* pages 1..p, and its final record has totalPages = maxPages and
\* currentPage = p.
C10_EarlyStopKeepsTotalPages ==
  [][\A r \in Runs :
       StopsEarly(r) =>
         LET job == jobs'[run[r].jobId]
         IN /\ job.status = "completed"
            /\ Has(job, "totalPages") /\ job.totalPages = run[r].maxPages
            /\ Has(job, "currentPage") /\ job.currentPage = run[r].i]_vars

\* C10 amended: when no next-page control is visible on a page
\* p < maxPages the job becomes completed (no error, progress 100) with
\* exactly the records of pages 1..p, one per link; the completed record
\* has no totalPages and no currentPage; the running record it replaces,
\* written by this run, had totalPages = maxPages and currentPage = p.
C10_EarlyStopCompletes ==
  [][\A r \in Runs :
       StopsEarly(r) =>
         LET id == run[r].jobId
             job == jobs'[id]
             all == run[r].allListings
         IN /\ run[r].i < run[r].maxPages
            /\ run[r].extracted = run[r].i
            /\ job.status = "completed" /\ job.error = Null /\ job.progress = 100
            /\ LinksOf(job.data) = LinksOf(all)
            /\ Len(job.data) = Cardinality(LinksOf(all))
            /\ \A k \in 1..Len(job.data) :
                 job.data[k] = all[LastIndex(all, job.data[k].link)]
            /\ job.count = Len(job.data)
            /\ ~Has(job, "totalPages") /\ ~Has(job, "currentPage")
            /\ JobResponse(id, job).status = "completed"
            /\ writer[id] = r =>
                 /\ jobs[id].totalPages = run[r].maxPages
                 /\ jobs[id].currentPage = run[r].i]_vars

\* a job asked for two pages that completed after one page, with listings
C10_Witness ==
  \E r \in Runs :
    /\ writer[run[r].jobId] = r
    /\ run[r].pc \in {"close", "done"}
    /\ run[r].error = Null
    /\ run[r].i = 1 /\ run[r].maxPages = 2 /\ run[r].extracted = 1
    /\ jobs[run[r].jobId].status = "completed"
    /\ jobs[run[r].jobId].data # <<>>

InFlight == {"queued", "running"}

\* C11: GET /job/{id} never changes the store; an unknown id is answered 404
\* "Job not found"; the answer for a queued or running job has no keys but
\* jobId, status, progress, currentPage, totalPages; an answer for a known
\* id that carries data, count, error or completedAt is for a completed or
\* failed job, and such a job's answer carries its data, count and error.
C11_PollShape ==
  [][\A id \in JobIds :
       GetJob(id) =>
         /\ jobs' = jobs
         /\ id \notin DOMAIN jobs =>
              resp' = [code |-> 404, error |-> "Job not found"]
         /\ id \in DOMAIN jobs =>
              /\ resp'.code = 200 /\ resp'.jobId = id
              /\ resp'.status = jobs[id].status
              /\ jobs[id].status \in InFlight =>
                   DOMAIN resp' \subseteq {"code", "jobId", "status", "progress",
                                           "currentPage", "totalPages"}
              /\ DOMAIN resp' \cap {"data", "count", "error", "completedAt"} # {} =>
                   jobs[id].status \in Terminal
              /\ jobs[id].status \in Terminal =>
                   /\ {"data", "count", "error"} \subseteq DOMAIN resp'
                   /\ resp'.data = jobs[id].data]_vars

\* a running job that has extracted listings is polled
C11_Witness ==
  /\ resp.code = 200
  /\ Has(resp, "currentPage")
  /\ resp.status = "running"
  /\ \E r \in Runs : run[r].jobId = resp.jobId /\ run[r].allListings # <<>>

\* C12: a POST /scrape whose body has no originUrl is answered 400 "Missing
\* originUrl" with no job id, and the step changes neither the store nor the
\* runs: no record is written and no call of runScraper starts.
C12_MissingOriginUrlRejected ==
  [][resp'.code = 400 =>
       /\ resp' = [code |-> 400, error |-> "Missing originUrl"]
       /\ jobs' = jobs
       /\ run' = run
       /\ writer' = writer]_vars

\* a request without originUrl is rejected while a job is running
C12_Witness ==
  /\ resp.code = 400
  /\ \E id \in DOMAIN jobs : jobs[id].status = "running"

\* C13: a failure inside a job never escapes its call of runScraper as an
\* unhandled rejection, and the API stays able to answer requests.
C13_FailuresContained ==
  /\ serverUp
  /\ \A r \in Runs : run[r].rejection = Null

\* C14: every submitted job ends completed or failed: once the call of
\* runScraper that owns a record has ended, normally or by a rejection, the
\* record is completed or failed.
C14_EndedRunIsTerminal ==
  \A r \in Runs :
    /\ run[r].pc \in {"done", "rejected"}
    /\ writer[run[r].jobId] = r
    => jobs[run[r].jobId].status \in Terminal

\* C15: a running record shows currentPage = p only after page p has been
\* extracted: the call of runScraper that wrote the record has run the
\* extractor on at least p pages.
C15_ProgressAfterExtraction ==
  \A id \in DOMAIN jobs :
    jobs[id].status = "running" /\ Has(jobs[id], "currentPage")
    => run[writer[id]].extracted >= jobs[id].currentPage

\* C16: for maxPages >= 1 a call of runScraper runs the extractor on at most
\* maxPages pages and clicks the next button at most maxPages - 1 times; it
\* looks the button up only on a page before the last and clicks it only
\* after isVisible answered; when the button is not clicked no further page
\* is extracted; and the probe wait, timed out or not, is followed by the
\* settle delay and writes no record.
C16_PaginationBounded ==
  [][\A r \in Runs :
       LET old == run[r]
           new == run'[r]
       IN old.maxPages >= 1 =>
            /\ new.extracted <= new.maxPages
            /\ new.clicks <= new.maxPages - 1
            /\ new.pc \in {"isVisible", "click", "clickSettle"} => new.i < new.maxPages
            /\ new.clicks # old.clicks =>
                 old.pc = "isVisible" /\ new.clicks = old.clicks + 1
            /\ old.pc = "isVisible" /\ new # old /\ new.clicks = old.clicks =>
                 new.pc = "close"
            /\ old.pc \in {"close", "done", "rejected"} => new.extracted = old.extracted
            /\ old.pc = "waitForSelector" /\ new # old =>
                 new.pc = "settle" /\ jobs' = jobs]_vars

\* a two-page job has extracted both pages with one click and has ended
C16_Witness ==
  \E r \in Runs :
    /\ run[r].maxPages = 2
    /\ run[r].extracted = 2
    /\ run[r].clicks = 1
    /\ run[r].pc = "done"
    /\ jobs[run[r].jobId].status = "completed"

\* C17: a step of a call of runScraper changes no record but the one of its
\* own job id, a step that answers a poll or a listing changes no record,
\* and a record that is completed or failed is never written again.
C17_RecordsWrittenByOwnerOnly ==
  [][/\ \A r \in Runs : \A id \in DOMAIN jobs :
          run'[r] # run[r] /\ id # run[r].jobId => jobs'[id] = jobs[id]
     /\ resp'.code # 0 /\ ~Has(resp', "success") => jobs' = jobs
     /\ \A id \in DOMAIN jobs :
          jobs[id].status \in Terminal => jobs'[id] = jobs[id]]_vars

\* a price token: 1 to 3 digits followed by one or more groups of a comma
\* and 3 digits
IsPriceToken(cs) ==
  \E n \in 1..3 : \E g \in 1..Len(cs) :
    /\ Len(cs) = n + 4 * g
    /\ \A k \in 1..n : IsDigit(cs[k])
    /\ \A j \in 0..(g - 1) :
         /\ cs[n + 4 * j + 1] = ","
         /\ \A d \in 2..4 : IsDigit(cs[n + 4 * j + d])

ContainsPriceToken(cs) ==
  \E s \in 1..Len(cs) : \E e \in s..Len(cs) : IsPriceToken(SubSeq(cs, s, e))

\* the anchor's text has a price token and not the category marker
Passes(a) ==
  LET cs == TextChars(a.text)
  IN ContainsPriceToken(cs) /\ \A k \in 1..Len(cs) : cs[k] # Marker

\* C18: the extractor emits, in page order, one record for each anchor whose
\* text contains a price token and not the category marker, and nothing
\* else: the other anchors are dropped, and anchors with the same text that
\* pass are all kept.
C18_ExtractorFilter ==
  Len(dOut) = 1 =>
    LET out == dOut[1]
        kept == SelectSeq(dIn, Passes)
    IN /\ Len(out) = Len(kept)
       /\ \A k \in 1..Len(out) :
            /\ out[k].link = kept[k].href
            /\ out[k] = ListingOf(kept[k])
            /\ out[k].price # Null

\* a page of two anchors with the same text and, between them, an anchor
\* that is dropped: both are kept
C18_Witness ==
  /\ Len(dOut) = 1
  /\ Len(dIn) = 3
  /\ dIn[1].text = dIn[3].text /\ dIn[1].href # dIn[3].href
  /\ ~Passes(dIn[2])
  /\ Len(dOut[1]) = 2
  /\ dOut[1][1].link = dIn[1].href /\ dOut[1][2].link = dIn[3].href

\* C19: no step removes a job id from the store, and the answer of GET /jobs
\* has exactly one entry {jobId, status, progress} for each id in the store,
\* taken from that id's record, and no other entry.
C19_StoreGrowsAndListsAll ==
  [][/\ DOMAIN jobs \subseteq DOMAIN jobs'
     /\ Has(resp', "jobs") =>
          /\ jobs' = jobs
          /\ resp'.jobs = { [jobId |-> id, status |-> jobs[id].status,
                             progress |-> jobs[id].progress] : id \in DOMAIN jobs }
          /\ Cardinality(resp'.jobs) = Cardinality(DOMAIN jobs)]_vars

\* the jobs are listed while the store holds a job that has ended and one
\* that is running
C19_Witness ==
  /\ Has(resp, "jobs")
  /\ Cardinality(resp.jobs) = 2
  /\ \E e \in resp.jobs : e.status \in Terminal
  /\ \E e \in resp.jobs : e.status = "running"

\* C20: no request sees a queued job: between two steps no record of the
\* store is queued, and no answer of GET /job/{id} or GET /jobs reports the
\* status queued.
C20_QueuedNeverObserved ==
  /\ \A id \in DOMAIN jobs : jobs[id].status \in {"running", "completed", "failed"}
  /\ Has(resp, "jobId") /\ Has(resp, "status") => resp.status # "queued"
  /\ Has(resp, "jobs") => \A e \in resp.jobs : e.status # "queued"

\* a job is polled after its submission and before any step of its call of
\* runScraper: it is running
C20_Witness ==
  /\ Has(resp, "jobId") /\ Has(resp, "status")
  /\ resp.status = "running" /\ resp.progress = 0
  /\ \E r \in Runs : run[r].jobId = resp.jobId /\ run[r].pc = "launch"
====
